---------------------------- MODULE Spec2Model ----------------------------
(***************************************************************************)
(* idb-fallback: a key-value store that persists in IndexedDB (through     *)
(* idb-keyval), falls back to a plain JS object when IndexedDB cannot be   *)
(* used, wipes the store when the version string changes and moves to      *)
(* memory when another tab announces itself (src/index.js).                *)
(*                                                                         *)
(* One IdbFallback instance is modelled together with its environment:     *)
(* localStorage, the IndexedDB object stores, the event loop of its tab    *)
(* (promise reactions, IndexedDB request completions, storage events) and  *)
(* the other tabs of the same profile, which write localStorage and the    *)
(* shared object store.                                                    *)
(*                                                                         *)
(* Keys of the memory object are ordinary property names: names that       *)
(* Object.prototype defines (hasOwnProperty, __proto__) are not drawn.     *)
(***************************************************************************)
EXTENDS Integers, Sequences, FiniteSets, TLC

\* ------------------------------------------------------------------ bounds

\* user operations that may be pending at the same time
MaxPending == 2
\* explicit store.disable() calls made by the application
MaxDisableCalls == 1
\* storage events that may wait for delivery
MaxEvents == 1

\* ------------------------------------------------------------- value sets

Keys == {"a", "b"}
Values == {"v1", "v2"}
\* JS undefined (a value) and the absence of an own property / of a record
Undefined == "undefined"
Absent == "absent"

\* constructor defaults
DefaultStore == "keyval-store/keyval"
VersionKey == "__IndexedDB_version"
LatestTabKey == "__latest_tab"
\* a non-default databaseName/objectStoreName, as in the new-tab test
CustomStore == "new-database/test-new-tab"
StoreIds == {DefaultStore, CustomStore}
Versions == {"0.1", "0.2"}
\* localStorage.getItem of a key that was never set
Null == "null"

Slots == 1..MaxPending

EmptyStore == [k \in Keys |-> Absent]
StoreKeys(m) == {k \in Keys : m[k] # Absent}

VARIABLES
  cfg,            \* constructor options: store, version, disableOnNewTabOpen
  lsVersion,      \* localStorage[versionKey]
  scope,          \* what the application does in this run: the keys it uses, the
                  \* calls that may overlap, whether a call may follow another
  lsTab,          \* localStorage[latestTabKey]: who wrote it last (none, self, foreign)
  idb,            \* the IndexedDB object stores: store id -> key -> value
  initPc,         \* where initStore is: opening, clearing, done
  initResult,     \* what the promise returned by initStore settled to
  ctorThen,       \* the constructor's reaction (line 65) is still to run
  indexedDBReady, \* this.indexedDBReady: "init" (initStore's promise) or "false"
  disabledReason, \* this.disabledReason
  onDisabledLog,  \* the calls of this.onDisabled, in order
  fallbackStore,  \* this.fallbackStore
  subscribed,     \* the storage listener is registered
  events,         \* storage events queued for this tab (the keys)
  ops,            \* the application's calls of get/set/del/keys/clear
  idbQ,           \* IndexedDB requests of this instance, in order of creation
  drain,          \* the copy to memory started by handleNewTabOpen
  hist            \* history of the run, read by the properties only

vars == <<scope, cfg, lsVersion, lsTab, idb, initPc, initResult, ctorThen,
          indexedDBReady, disabledReason, onDisabledLog, fallbackStore,
          subscribed, events, ops, idbQ, drain, hist>>


\* ------------------------------------------------ pure parts of the code

\* handleBrowserError: the reason passed on to disable()
HandleBrowserErrorReason(reason, ua, errName, idbUndefined) ==
  IF ua = "firefox" /\ errName = "InvalidStateError" THEN "firefox_private_browsing"
  ELSE IF ua = "firefox" /\ errName = "UnknownError"
       THEN "firefox_esr_user_profile_corrupted"
  ELSE IF ua = "edge" /\ idbUndefined THEN "edge_private_browsing"
  ELSE reason

\* the browsers and the errors of IndexedDB drawn in a run
UserAgents == {"chrome", "firefox"}
ErrorNames == {"InvalidStateError"}

\* updateVersion: dbVersion === latestVersion allows access without a wipe
VersionUpToDate(dbVersion, latestVersion) == dbVersion = latestVersion

\* updateVersion calls idbKeyval.clear() with no store argument: idb-keyval
\* then clears its default store, whatever store this instance was given
ClearTarget(ownStore) == DefaultStore

\* a disable() that leaves the promise of initStore in place (read by no action)
ReadyKept(current) == current

\* this.indexedDBReady after this.disable(): Promise.resolve(false)
ReadyAfterDisable(current) == "false"

\* the value a reaction on promise p is called with
\* ("pending": not called yet, "rejected": never called, the caller's promise rejects)
ReadyValue(p) == IF p = "false" THEN "false" ELSE initResult

\* a get that does not look at the memory object (read by no action)
GetRouteNoShadow(useFallback, hasKey, useIndexedDB) ==
  IF ~useIndexedDB THEN "none" ELSE "idb"

\* get: where the answer comes from
GetRoute(useFallback, hasKey, useIndexedDB) ==
  IF useFallback /\ hasKey THEN "overlay"
  ELSE IF ~useIndexedDB THEN "none"
  ELSE "idb"

\* set, after the memory entry was removed
SetRoute(useFallback, useIndexedDB) ==
  IF ~useIndexedDB THEN (IF useFallback THEN "memory" ELSE "reject")
  ELSE "idb"

\* set: the rejection handler of the IndexedDB write
SetOnError(useFallback) == IF useFallback THEN "memory" ELSE "reject"

\* a get that answers a failed read with undefined (read by no action)
GetOnErrorUndefined(error) == [res |-> "ok", rval |-> Undefined]

\* get: the promise of the IndexedDB read is returned as it is, so its
\* rejection is the rejection of the call
GetOnError(error) == [res |-> "err", rval |-> error]

\* del
\* a del that goes to IndexedDB whenever it can (read by no action)
DelRouteThrough(hasKey, useIndexedDB) ==
  IF ~useIndexedDB THEN (IF hasKey THEN "overlay" ELSE "none") ELSE "idb"

DelRoute(hasKey, useIndexedDB) ==
  IF hasKey THEN "overlay"
  ELSE IF ~useIndexedDB THEN "none"
  ELSE "idb"

\* keys and clear
UsesIndexedDB(useIndexedDB) == useIndexedDB

\* Object.keys(this.fallbackStore)
MemoryKeys(fs) == {k \in Keys : fs[k] # Absent}

\* this.disable() has run, and how often the application called it
DisableCalled == \E i \in 1..Len(onDisabledLog) : onDisabledLog[i].wasInitialized
ExplicitCalls == Cardinality({i \in 1..Len(onDisabledLog) :
                                onDisabledLog[i].reason = "manual"})

\* req.result of an IndexedDB get: undefined when there is no record
IdbGetResult(store, k) == IF idb[store][k] = Absent THEN Undefined ELSE idb[store][k]

\* ------------------------------------------------------------ records

NoKey == "-"
\* a call of get/set/del/keys/clear
\*   kind, key, val, uf   the call and its arguments (uf: useFallback)
\*   p                    the promise it took from this.indexedDBReady
\*   pc                   idle, await (the promise), adapter (IndexedDB), done
\*   via, res, rval       the branch taken, ok/err, the value or error
\*   ik, mk               the key lists keys() resolved
\* and, read by the properties only:
\*   ad    this.disable() had run when the call was made
\*   di    initStore's promise was pending when the call was made
\*   exp   for a finished set or del: fresh while no set/del/clear of the key
\*         followed; for a get made right after it: the value it left
IdleOp == [kind |-> "none", key |-> NoKey, val |-> Undefined, uf |-> TRUE,
           p |-> "init", pc |-> "idle", via |-> "none",
           res |-> "none", rval |-> Undefined, ik |-> {}, mk |-> {},
           ad |-> FALSE, di |-> FALSE, exp |-> "none"]

IdleDrain == [pc |-> "idle", waiting |-> {}, settled |-> FALSE]

Request(owner, slot, op, key, val, store) ==
  [owner |-> owner, slot |-> slot, op |-> op, key |-> key, val |-> val,
   store |-> store]

IsWrite(r) == r.op \in {"set", "del", "clear"}

\* IndexedDB runs transactions whose scopes overlap in the order of their
\* creation when one of them writes; read-only ones may finish in any order
MayComplete(i) ==
  \A j \in 1..(i - 1) :
     ~(idbQ[j].store = idbQ[i].store /\ (IsWrite(idbQ[j]) \/ IsWrite(idbQ[i])))

RemoveAt(q, i) == [j \in 1..(Len(q) - 1) |-> IF j < i THEN q[j] ELSE q[j + 1]]

DisabledArgs(wasInitialized, reason, error) ==
  [wasInitialized |-> wasInitialized, reason |-> reason, error |-> error]

\* history: nothing of the program reads it
\*   snapFs    this.fallbackStore when the announcement was handled
\*   dirty     keys that a call of this tab or another tab touched since
\*   quiet     persistence was in use at the announcement and
\*             store.disable() was not called before the copy ended
\*   drainErr  a request of the copy failed
InitHist == [snapFs |-> EmptyStore, dirty |-> {}, quiet |-> FALSE,
             drainErr |-> FALSE]

\* ---------------------------------------------------------------- Init

OpCalls ==
  [kind : {"get"}, key : Keys, val : {Undefined}, uf : BOOLEAN]
    \cup [kind : {"set"}, key : Keys, val : Values, uf : BOOLEAN]
    \cup [kind : {"del"}, key : Keys, val : {Undefined}, uf : {TRUE}]
    \cup [kind : {"keys", "clear"}, key : {NoKey}, val : {Undefined}, uf : {TRUE}]

\* what earlier instances left in the object stores
InitialContents(ks) ==
  {[s \in StoreIds |-> EmptyStore],
   [s \in StoreIds |-> [k \in Keys |-> IF k \in ks THEN "v1" ELSE Absent]]}

\* The state after the constructor returned: new Store() either threw (then
\* a constructor that registers its reaction whatever the option (read by
\* no action)
StartsAlways(disableOnNewTabOpen, useIndexedDB) == TRUE

\* the constructor's reaction calls listenForNewTabOpen: it is registered only
\* if (disableOnNewTabOpen), and calls only if (useIndexedDB)
StartsCoordination(disableOnNewTabOpen, useIndexedDB) ==
  disableOnNewTabOpen /\ useIndexedDB

\* initStore went through handleBrowserError and returned Promise.resolve(false))
\* or the database is being opened.
InitCommon ==
  /\ cfg.version = "0.2"
  /\ lsVersion \in Versions
  /\ lsTab = "none"
  /\ idb \in InitialContents(scope.keys)
  /\ indexedDBReady = "init"
  /\ fallbackStore = EmptyStore
  /\ subscribed = FALSE
  /\ events = <<>>
  /\ ops = [s \in Slots |-> IdleOp]
  /\ idbQ = <<>>
  /\ drain = IdleDrain
  /\ hist = InitHist

InitOpening ==
  /\ initPc = "opening"
  /\ ctorThen = FALSE
  /\ initResult = "pending"
  /\ disabledReason = Null
  /\ onDisabledLog = <<>>

InitStoreThrew ==
  \E ua \in UserAgents, en \in ErrorNames :
    LET reason == HandleBrowserErrorReason("new idbKeyval.Store failed", ua, en, FALSE)
    IN /\ initPc = "done"
       /\ initResult = "false"
       /\ ctorThen = StartsCoordination(cfg.tabOpt, FALSE)
       /\ disabledReason = reason
       /\ onDisabledLog = <<DisabledArgs(FALSE, reason, en)>>

\* one call at a time on one key, with every option of the constructor
Init ==
  /\ scope = [keys |-> {"a"}, slots |-> {1}, reuse |-> TRUE,
              calls |-> {c \in OpCalls : c.key \in {"a", NoKey}}]
  /\ cfg \in [store : StoreIds, version : {"0.2"}, tabOpt : BOOLEAN]
  /\ InitCommon /\ (InitOpening \/ InitStoreThrew)

\* two set calls that overlap, made while the default store is opened
InitPair ==
  /\ scope = [keys |-> {"a"}, slots |-> Slots, reuse |-> FALSE,
              calls |-> {c \in OpCalls : c.key = "a" /\ c.kind = "set" /\ c.uf}]
  /\ cfg = [store |-> DefaultStore, version |-> "0.2", tabOpt |-> TRUE]
  /\ InitCommon /\ InitOpening


\* ------------------------------------------------------- initialization

\* a reaction of a settled promise is waiting to run: the event loop runs it
\* before the next event (an IndexedDB callback, a storage event)
ReactionsWaiting ==
  \/ ctorThen
  \/ \E s \in Slots : ops[s].pc = "await" /\ ReadyValue(ops[s].p) # "pending"

\* disable() of initStore (line 175): reports, records the reason, returns false
InitDisable(reason, error) ==
  /\ onDisabledLog' = Append(onDisabledLog, DisabledArgs(FALSE, reason, error))
  /\ disabledReason' = reason
  /\ initResult' = "false"
  /\ initPc' = "done"
  /\ ctorThen' = StartsCoordination(cfg.tabOpt, FALSE)

\* this.disable() (line 187)
ThisDisable(reason, error) ==
  /\ onDisabledLog' = Append(onDisabledLog, DisabledArgs(TRUE, reason, error))
  /\ disabledReason' = reason
  /\ indexedDBReady' = ReadyAfterDisable(indexedDBReady)

\* initStore resolved true: the constructor's reaction runs first, if registered
InitAllow ==
  /\ initResult' = "true"
  /\ initPc' = "done"
  /\ ctorThen' = StartsCoordination(cfg.tabOpt, TRUE)
  /\ UNCHANGED <<onDisabledLog, disabledReason>>

\* store._dbp rejected: handleBrowserError('indexedDB.open failed', error)
OpenFailed ==
  /\ initPc = "opening"
  /\ ~ReactionsWaiting
  /\ \E ua \in UserAgents, en \in ErrorNames :
       InitDisable(HandleBrowserErrorReason("indexedDB.open failed", ua, en, FALSE), en)
  /\ UNCHANGED <<scope, cfg, lsVersion, lsTab, idb, indexedDBReady, fallbackStore,
                 subscribed, events, ops, idbQ, drain, hist>>

\* store._dbp resolved: updateVersion() up to its first asynchronous call
OpenSucceeded ==
  /\ initPc = "opening"
  /\ ~ReactionsWaiting
  /\ \/ \* localStorage.getItem throws
        /\ InitDisable("Unable to read __IndexedDB_version from localStorage",
                       "SecurityError")
        /\ UNCHANGED <<idbQ, hist>>
     \/ /\ VersionUpToDate(lsVersion, cfg.version)
        /\ InitAllow
        /\ UNCHANGED <<idbQ, hist>>
     \/ \* idbKeyval is no binding of the module: with a global of that name the
        \* call clears idb-keyval's default store
        /\ ~VersionUpToDate(lsVersion, cfg.version)
        /\ idbQ' = Append(idbQ, Request("init", 0, "clear", NoKey, Undefined,
                                        ClearTarget(cfg.store)))
        /\ initPc' = "clearing"
        /\ UNCHANGED <<hist, initResult, ctorThen, onDisabledLog, disabledReason>>
     \/ \* without such a global the call throws a ReferenceError inside the
        \* reaction, and the promise returned by initStore rejects
        /\ ~VersionUpToDate(lsVersion, cfg.version)
        /\ initResult' = "rejected"
        /\ initPc' = "done"
        /\ UNCHANGED <<idbQ, hist, ctorThen, onDisabledLog, disabledReason>>
  /\ UNCHANGED <<scope, cfg, lsVersion, lsTab, idb, indexedDBReady, fallbackStore,
                 subscribed, events, ops, drain>>

\* the clear of updateVersion finished
InitClearDone ==
  /\ initPc = "clearing"
  /\ ~ReactionsWaiting
  /\ \E i \in 1..Len(idbQ) :
       /\ idbQ[i].owner = "init"
       /\ MayComplete(i)
       /\ idbQ' = RemoveAt(idbQ, i)
       /\ \/ \* cleared, version written
             /\ idb' = [idb EXCEPT ![idbQ[i].store] = EmptyStore]
             /\ lsVersion' = cfg.version
             /\ InitAllow
             /\ UNCHANGED hist
          \/ \* cleared, localStorage.setItem throws
             /\ idb' = [idb EXCEPT ![idbQ[i].store] = EmptyStore]
             /\ InitDisable("Unable to write __IndexedDB_version to localStorage",
                            "QuotaExceededError")
             /\ UNCHANGED <<lsVersion, hist>>
          \/ \* the clear failed
             /\ \E ua \in UserAgents, en \in ErrorNames :
                  InitDisable(HandleBrowserErrorReason(
                     "Unable to clear keys while upgrading version", ua, en, FALSE), en)
             /\ UNCHANGED <<idb, lsVersion, hist>>
  /\ UNCHANGED <<scope, cfg, lsTab, indexedDBReady, fallbackStore, subscribed, events,
                 ops, drain>>

\* the constructor's reaction: if (useIndexedDB) this.listenForNewTabOpen()
ListenForNewTabOpen ==
  /\ ctorThen
  /\ ctorThen' = FALSE
  /\ \/ \* localStorage.setItem throws
        /\ ThisDisable("Unable to write __latest_tab to localStorage",
                       "QuotaExceededError")
        /\ UNCHANGED <<lsTab, subscribed>>
     \/ \* Date.now() written, listener added
        /\ lsTab' = "self"
        /\ subscribed' = TRUE
        /\ UNCHANGED <<onDisabledLog, disabledReason, indexedDBReady>>
  /\ UNCHANGED <<scope, cfg, lsVersion, idb, initPc, initResult, fallbackStore,
                 events, ops, idbQ, drain, hist>>

\* the application calls store.disable(reason, error); no code of the
\* application runs between the resolution of initStore and the constructor's
\* reaction to it
Disable ==
  /\ ExplicitCalls < MaxDisableCalls
  /\ ~ctorThen
  /\ ThisDisable("manual", "none")
  /\ hist' = [hist EXCEPT !.quiet = IF drain.pc \in {"keys", "gets"} THEN FALSE
                                    ELSE @]
  /\ UNCHANGED <<scope, cfg, lsVersion, lsTab, idb, initPc, initResult, ctorThen,
                 fallbackStore, subscribed, events, ops, idbQ, drain>>


\* ------------------------------------------------- get/set/del/keys/clear

Pending(o) == o.pc \in {"await", "adapter"}

\* a call that changes what is stored under k
Touches(c, k) == (c.kind \in {"set", "del"} /\ c.key = k) \/ c.kind = "clear"

OtherPendingOn(s, k) ==
  \E s2 \in Slots \ {s} : Pending(ops[s2]) /\ Touches(ops[s2], k)

\* the copy to memory is under way
Draining == drain.pc \in {"keys", "gets"} /\ ~drain.settled

\* the call itself: return this.indexedDBReady.then(...)
Invoke(s, c) ==
  /\ s \in scope.slots
  /\ c \in scope.calls
  /\ ops[s].pc = "idle" \/ (ops[s].pc = "done" /\ scope.reuse)
  /\ LET prev == ops[s]
         follows == prev.pc = "done" /\ prev.exp = "fresh" /\ prev.key = c.key
         exp == IF follows /\ c.kind = "get" /\ c.uf
                THEN (IF prev.kind = "set" THEN prev.val ELSE Undefined)
                ELSE IF follows /\ c.kind = "del" /\ prev.kind = "set"
                THEN "afterset"
                ELSE "none"
         new == [IdleOp EXCEPT !.kind = c.kind, !.key = c.key, !.val = c.val,
                               !.uf = c.uf, !.p = indexedDBReady, !.pc = "await",
                               !.ad = DisableCalled,
                               !.di = (initResult = "pending"), !.exp = exp]
     IN ops' = [s2 \in Slots |->
                  IF s2 = s THEN new
                  ELSE IF Touches(c, ops[s2].key)
                          /\ ~(ops[s2].pc = "done" /\ ops[s2].kind = "get")
                  THEN [ops[s2] EXCEPT !.exp = "none"]
                  ELSE ops[s2]]
  /\ hist' = [hist EXCEPT !.dirty = IF Draining
                                    THEN @ \cup {k \in Keys : Touches(c, k)}
                                    ELSE @]
  /\ UNCHANGED <<scope, cfg, lsVersion, lsTab, idb, initPc, initResult, ctorThen,
                 indexedDBReady, disabledReason, onDisabledLog, fallbackStore,
                 subscribed, events, idbQ, drain>>

\* the promise of the call settles
Finish(s, o, via, res, rval) ==
  LET ack == res = "ok" /\ ~OtherPendingOn(s, o.key)
             /\ ((o.kind = "set" /\ o.uf) \/ (o.kind = "del" /\ o.exp = "afterset"))
  IN [o EXCEPT !.pc = "done", !.p = "init", !.via = via, !.res = res,
               !.rval = rval,
               !.exp = IF o.kind = "get" THEN @ ELSE IF ack THEN "fresh" ELSE "none"]

ToAdapter(o) == [o EXCEPT !.pc = "adapter", !.via = "idb"]

\* the reaction registered by the call runs with the value of the promise
Route(s) ==
  LET o == ops[s]
      v == ReadyValue(o.p)
      use == (v = "true")
      oo == o
      has == fallbackStore[o.key] # Absent
      req == Request("op", s, o.kind, o.key, o.val, cfg.store)
      removed == IF o.kind = "set" THEN [fallbackStore EXCEPT ![o.key] = Absent]
                 ELSE fallbackStore
  IN
  /\ o.pc = "await"
  /\ v # "pending"
  /\ (o.p = "init") => ~ctorThen
  /\ \/ \* the promise rejected: no reaction runs, the call rejects
        /\ v = "rejected"
        /\ ops' = [ops EXCEPT ![s] = Finish(s, oo, "rejected", "err", "ReferenceError")]
        /\ UNCHANGED <<fallbackStore, idbQ>>
     \/ /\ v # "rejected" /\ o.kind = "get"
        /\ LET r == GetRoute(o.uf, has, use) IN
           \/ /\ r = "overlay"
              /\ ops' = [ops EXCEPT ![s] = Finish(s, oo, r, "ok", fallbackStore[o.key])]
              /\ UNCHANGED idbQ
           \/ /\ r = "none"
              /\ ops' = [ops EXCEPT ![s] = Finish(s, oo, r, "ok", Undefined)]
              /\ UNCHANGED idbQ
           \/ /\ r = "idb"
              /\ ops' = [ops EXCEPT ![s] = ToAdapter(oo)]
              /\ idbQ' = Append(idbQ, req)
        /\ UNCHANGED fallbackStore
     \/ /\ v # "rejected" /\ o.kind = "set"
        /\ LET r == SetRoute(o.uf, use) IN
           \/ /\ r = "memory"
              /\ fallbackStore' = [removed EXCEPT ![o.key] = o.val]
              /\ ops' = [ops EXCEPT ![s] = Finish(s, oo, r, "ok", "memory")]
              /\ UNCHANGED idbQ
           \/ /\ r = "reject"
              /\ fallbackStore' = removed
              /\ ops' = [ops EXCEPT ![s] = Finish(s, oo, r, "err", disabledReason)]
              /\ UNCHANGED idbQ
           \/ /\ r = "idb"
              /\ fallbackStore' = removed
              /\ ops' = [ops EXCEPT ![s] = ToAdapter(oo)]
              /\ idbQ' = Append(idbQ, req)
     \/ /\ v # "rejected" /\ o.kind = "del"
        /\ LET r == DelRoute(has, use) IN
           \/ /\ r = "overlay"
              /\ fallbackStore' = [fallbackStore EXCEPT ![o.key] = Absent]
              /\ ops' = [ops EXCEPT ![s] = Finish(s, oo, r, "ok", Undefined)]
              /\ UNCHANGED idbQ
           \/ /\ r = "none"
              /\ ops' = [ops EXCEPT ![s] = Finish(s, oo, r, "ok", Undefined)]
              /\ UNCHANGED <<fallbackStore, idbQ>>
           \/ /\ r = "idb"
              /\ ops' = [ops EXCEPT ![s] = ToAdapter(oo)]
              /\ idbQ' = Append(idbQ, req)
              /\ UNCHANGED fallbackStore
     \/ /\ v # "rejected" /\ o.kind = "keys"
        /\ LET withMk == [oo EXCEPT !.mk = MemoryKeys(fallbackStore)] IN
           \/ /\ ~UsesIndexedDB(use)
              /\ ops' = [ops EXCEPT ![s] = Finish(s, withMk, "none", "ok", Undefined)]
              /\ UNCHANGED idbQ
           \/ /\ UsesIndexedDB(use)
              /\ ops' = [ops EXCEPT ![s] = ToAdapter(withMk)]
              /\ idbQ' = Append(idbQ, req)
        /\ UNCHANGED fallbackStore
     \/ /\ v # "rejected" /\ o.kind = "clear"
        /\ fallbackStore' = EmptyStore
        /\ \/ /\ ~UsesIndexedDB(use)
              /\ ops' = [ops EXCEPT ![s] = Finish(s, oo, "none", "ok", Undefined)]
              /\ UNCHANGED idbQ
           \/ /\ UsesIndexedDB(use)
              /\ ops' = [ops EXCEPT ![s] = ToAdapter(oo)]
              /\ idbQ' = Append(idbQ, req)
  /\ UNCHANGED <<scope, cfg, lsVersion, lsTab, idb, initPc, initResult, ctorThen,
                 indexedDBReady, disabledReason, onDisabledLog, subscribed,
                 events, drain, hist>>

\* the IndexedDB request of a call finished
OpDone(s) ==
  \E i \in 1..Len(idbQ) :
    LET r == idbQ[i]
        o == ops[s]
    IN
    /\ ~ReactionsWaiting
    /\ r.owner = "op" /\ r.slot = s
    /\ MayComplete(i)
    /\ idbQ' = RemoveAt(idbQ, i)
    /\ \/ /\ r.op = "set"
          /\ \/ /\ idb' = [idb EXCEPT ![r.store][r.key] = r.val]
                /\ ops' = [ops EXCEPT ![s] = Finish(s, o, "idb", "ok", "IndexedDB")]
                /\ UNCHANGED fallbackStore
             \/ /\ SetOnError(o.uf) = "memory"
                /\ fallbackStore' = [fallbackStore EXCEPT ![r.key] = r.val]
                /\ ops' = [ops EXCEPT ![s] = Finish(s, o, "onerror", "ok", "memory")]
                /\ UNCHANGED idb
             \/ /\ SetOnError(o.uf) = "reject"
                /\ ops' = [ops EXCEPT ![s] = Finish(s, o, "onerror", "err", "idb_error")]
                /\ UNCHANGED <<idb, fallbackStore>>
       \/ /\ r.op = "get"
          /\ \/ ops' = [ops EXCEPT ![s] = Finish(s, o, "idb", "ok",
                                                 IdbGetResult(r.store, r.key))]
             \/ ops' = [ops EXCEPT ![s] = Finish(s, o, "idb", GetOnError("idb_error").res,
                                                 GetOnError("idb_error").rval)]
          /\ UNCHANGED <<idb, fallbackStore>>
       \/ /\ r.op = "del"
          /\ \/ /\ idb' = [idb EXCEPT ![r.store][r.key] = Absent]
                /\ ops' = [ops EXCEPT ![s] = Finish(s, o, "idb", "ok", Undefined)]
             \/ /\ ops' = [ops EXCEPT ![s] = Finish(s, o, "idb", "err", "idb_error")]
                /\ UNCHANGED idb
          /\ UNCHANGED fallbackStore
       \/ /\ r.op = "keys"
          /\ \/ ops' = [ops EXCEPT ![s] =
                          [Finish(s, o, "idb", "ok", Undefined)
                             EXCEPT !.ik = StoreKeys(idb[r.store])]]
             \/ ops' = [ops EXCEPT ![s] = Finish(s, o, "idb", "err", "idb_error")]
          /\ UNCHANGED <<idb, fallbackStore>>
       \/ /\ r.op = "clear"
          /\ \/ /\ idb' = [idb EXCEPT ![r.store] = EmptyStore]
                /\ ops' = [ops EXCEPT ![s] = Finish(s, o, "idb", "ok", Undefined)]
             \/ /\ ops' = [ops EXCEPT ![s] = Finish(s, o, "idb", "err", "idb_error")]
                /\ UNCHANGED idb
          /\ UNCHANGED fallbackStore
    /\ UNCHANGED <<scope, cfg, lsVersion, lsTab, initPc, initResult, ctorThen,
                   indexedDBReady, disabledReason, onDisabledLog, subscribed,
                   events, drain, hist>>

\* ------------------------------------------------------ tab coordination

KeyOrder == <<"a", "b">>

\* the requests of the copy, in the order of the key list
GetRequests(ks) ==
  LET R(k) == Request("drainGet", 0, "get", k, Undefined, cfg.store)
  IN SelectSeq([i \in 1..Len(KeyOrder) |-> R(KeyOrder[i])], LAMBDA r : r.key \in ks)

\* the value handleNewTabOpen stores for a key it read
DrainValue(value) == value

\* a copy whose failure is not handled (read by no action)
DrainOnErrorIgnored == "ignore"

\* the rejection handler of the copy: error => this.disable('new_tab_opened', error)
DrainOnError == "disable"

\* the copy failed: what its rejection handler does
DrainFailed ==
  IF DrainOnError = "disable" THEN ThisDisable("new_tab_opened", "idb_error")
  ELSE UNCHANGED <<onDisabledLog, disabledReason, indexedDBReady>>

\* a handler that stays registered (read by no action)
ListenerKept(registered) == registered

\* window.removeEventListener('storage', handleNewTabOpen)
ListenerAfterEvent(registered) == FALSE

\* history once Promise.all of the copy settled
HistSettled(err) ==
  [snapFs |-> EmptyStore, dirty |-> {}, quiet |-> hist.quiet,
   drainErr |-> (err \/ hist.drainErr)]

\* a storage event is delivered: handleNewTabOpen(event)
HandleNewTabOpen ==
  /\ events # <<>>
  /\ ~ReactionsWaiting
  /\ events' = Tail(events)
  /\ \/ \* no listener, or event.key !== latestTabKey
        /\ ~(subscribed /\ Head(events) = LatestTabKey)
        /\ UNCHANGED <<subscribed, idbQ, drain, hist, onDisabledLog,
                       disabledReason, indexedDBReady>>
     \/ /\ subscribed /\ Head(events) = LatestTabKey
        /\ subscribed' = ListenerAfterEvent(subscribed)
        /\ LET use == ReadyValue(indexedDBReady) = "true" IN
           \/ \* this.keys() lists the object store
              /\ UsesIndexedDB(use)
              /\ idbQ' = Append(idbQ, Request("drainKeys", 0, "keys", NoKey,
                                              Undefined, cfg.store))
              /\ drain' = [drain EXCEPT !.pc = "keys"]
              /\ hist' = [snapFs |-> fallbackStore,
                          dirty |-> {k \in Keys : \E s \in Slots :
                                       Pending(ops[s]) /\ Touches(ops[s], k)},
                          quiet |-> TRUE, drainErr |-> FALSE]
              /\ UNCHANGED <<onDisabledLog, disabledReason, indexedDBReady>>
           \/ \* this.keys() resolves { indexedDB: [] }: nothing to copy
              /\ ~UsesIndexedDB(use)
              /\ ThisDisable("new_tab_opened", "none")
              /\ drain' = [drain EXCEPT !.pc = "done", !.settled = TRUE]
              /\ UNCHANGED <<idbQ, hist>>
  /\ UNCHANGED <<scope, cfg, lsVersion, lsTab, idb, initPc, initResult, ctorThen,
                 fallbackStore, ops>>

\* keys(this.store) of the copy finished; every this.get(key) is routed
DrainKeysDone ==
  /\ drain.pc = "keys"
  /\ ~ReactionsWaiting
  /\ \E i \in 1..Len(idbQ) :
       /\ idbQ[i].owner = "drainKeys"
       /\ MayComplete(i)
       /\ LET q == RemoveAt(idbQ, i)
              use == ReadyValue(indexedDBReady) = "true"
              ks == StoreKeys(idb[cfg.store])
              route(k) == GetRoute(TRUE, fallbackStore[k] # Absent, use)
              toRead == {k \in ks : route(k) = "idb"}
          IN
          \/ \* the key list arrived
             /\ fallbackStore' =
                  [k \in Keys |-> IF k \in ks /\ route(k) = "none"
                                  THEN DrainValue(Undefined)
                                  ELSE IF k \in ks /\ route(k) = "overlay"
                                  THEN DrainValue(fallbackStore[k])
                                  ELSE fallbackStore[k]]
             /\ idbQ' = q \o GetRequests(toRead)
             /\ \/ /\ toRead # {}
                   /\ drain' = [drain EXCEPT !.pc = "gets", !.waiting = toRead]
                   /\ UNCHANGED <<onDisabledLog, disabledReason, indexedDBReady,
                                  hist>>
                \/ /\ toRead = {}
                   /\ ThisDisable("new_tab_opened", "none")
                   /\ drain' = [drain EXCEPT !.pc = "done", !.settled = TRUE]
                   /\ hist' = HistSettled(FALSE)
          \/ \* the key list failed
             /\ idbQ' = q
             /\ DrainFailed
             /\ drain' = [drain EXCEPT !.pc = "done", !.settled = TRUE]
             /\ hist' = HistSettled(TRUE)
             /\ UNCHANGED fallbackStore
  /\ UNCHANGED <<scope, cfg, lsVersion, lsTab, idb, initPc, initResult, ctorThen,
                 subscribed, events, ops>>

\* one get of the copy finished; Promise.all settles on the last success or
\* on the first failure, and the reads still pending go on
DrainGetDone(k) ==
  /\ drain.pc \in {"gets", "done"}
  /\ ~ReactionsWaiting
  /\ k \in drain.waiting
  /\ \E i \in 1..Len(idbQ) :
       /\ idbQ[i].owner = "drainGet" /\ idbQ[i].key = k
       /\ MayComplete(i)
       /\ idbQ' = RemoveAt(idbQ, i)
       /\ LET left == drain.waiting \ {k} IN
          \/ \* this.fallbackStore[key] = value
             /\ fallbackStore' = [fallbackStore EXCEPT
                                    ![k] = DrainValue(IdbGetResult(cfg.store, k))]
             /\ \/ /\ left = {} /\ ~drain.settled
                   /\ ThisDisable("new_tab_opened", "none")
                   /\ drain' = [pc |-> "done", waiting |-> left, settled |-> TRUE]
                   /\ hist' = HistSettled(FALSE)
                \/ /\ ~(left = {} /\ ~drain.settled)
                   /\ drain' = [drain EXCEPT !.waiting = left]
                   /\ UNCHANGED <<onDisabledLog, disabledReason, indexedDBReady,
                                  hist>>
          \/ \* the read failed
             /\ UNCHANGED fallbackStore
             /\ \/ /\ ~drain.settled
                   /\ DrainFailed
                   /\ drain' = [pc |-> "done", waiting |-> left, settled |-> TRUE]
                   /\ hist' = HistSettled(TRUE)
                \/ /\ drain.settled
                   /\ drain' = [drain EXCEPT !.waiting = left]
                   /\ UNCHANGED <<onDisabledLog, disabledReason, indexedDBReady,
                                  hist>>
  /\ UNCHANGED <<scope, cfg, lsVersion, lsTab, idb, initPc, initResult, ctorThen,
                 subscribed, events, ops>>

\* ----------------------------------------------------------- other tabs

\* history: a write of another tab ends what a finished set or del left
ForeignOps(touched) ==
  [s \in Slots |-> IF ops[s].key \in touched
                      /\ ~(ops[s].pc = "done" /\ ops[s].kind = "get")
                   THEN [ops[s] EXCEPT !.exp = "none"] ELSE ops[s]]

ForeignHist(touched) ==
  [hist EXCEPT !.dirty = IF Draining THEN @ \cup touched ELSE @]

\* another tab ran listenForNewTabOpen: a storage event is queued for this tab
ForeignAnnounce ==
  /\ Len(events) < MaxEvents
  /\ lsTab' = "foreign"
  /\ events' = Append(events, LatestTabKey)
  /\ UNCHANGED <<scope, cfg, lsVersion, idb, initPc, initResult, ctorThen,
                 indexedDBReady, disabledReason, onDisabledLog, fallbackStore,
                 subscribed, ops, idbQ, drain, hist>>

\* another instance with another version string ran updateVersion
ForeignVersionUpdate ==
  /\ Len(events) < MaxEvents
  /\ \E v \in Versions \ {cfg.version} : lsVersion # v /\ lsVersion' = v
  /\ idb' = [idb EXCEPT ![ClearTarget(cfg.store)] = EmptyStore]
  /\ events' = Append(events, VersionKey)
  /\ LET touched == IF ClearTarget(cfg.store) = cfg.store THEN Keys ELSE {}
     IN /\ hist' = ForeignHist(touched)
        /\ ops' = ForeignOps(touched)
  /\ UNCHANGED <<scope, cfg, lsTab, initPc, initResult, ctorThen, indexedDBReady,
                 disabledReason, onDisabledLog, fallbackStore, subscribed,
                 idbQ, drain>>

\* another tab wrote or deleted a key of the shared object store
ForeignWrite ==
  /\ \E k \in scope.keys, v \in Values \cup {Absent} :
       /\ idb[cfg.store][k] # v
       /\ idb' = [idb EXCEPT ![cfg.store][k] = v]
       /\ hist' = ForeignHist({k})
       /\ ops' = ForeignOps({k})
  /\ UNCHANGED <<scope, cfg, lsVersion, lsTab, initPc, initResult, ctorThen,
                 indexedDBReady, disabledReason, onDisabledLog, fallbackStore,
                 subscribed, events, idbQ, drain>>

\* ------------------------------------------------------------------ Next

Next ==
  \/ OpenFailed
  \/ OpenSucceeded
  \/ InitClearDone
  \/ ListenForNewTabOpen
  \/ Disable
  \/ \E s \in Slots, c \in OpCalls : Invoke(s, c)
  \/ \E s \in Slots : Route(s)
  \/ \E s \in Slots : OpDone(s)
  \/ HandleNewTabOpen
  \/ DrainKeysDone
  \/ \E k \in Keys : DrainGetDone(k)
  \/ ForeignAnnounce
  \/ ForeignVersionUpdate
  \/ ForeignWrite

Spec == Init /\ [][Next]_vars

SpecPair == InitPair /\ [][Next]_vars

\* one call on one key of a tab that coordinates, with an event loop that
\* goes on: reactions run, IndexedDB requests settle
InitFair ==
  /\ scope = [keys |-> {"a"}, slots |-> {1}, reuse |-> FALSE,
              calls |-> {c \in OpCalls : c.key \in {"a", NoKey} /\ c.uf}]
  /\ cfg = [store |-> DefaultStore, version |-> "0.2", tabOpt |-> TRUE]
  /\ InitCommon /\ InitOpening

\* two keys, written and deleted one call at a time
InitKeys ==
  /\ scope = [keys |-> Keys, slots |-> {1}, reuse |-> TRUE,
              calls |-> {c \in OpCalls :
                           (c.kind = "del") \/ (c.kind = "set" /\ c.uf /\ c.val = "v2")}]
  /\ cfg = [store |-> DefaultStore, version |-> "0.2", tabOpt |-> TRUE]
  /\ InitCommon /\ InitOpening

SpecKeys == InitKeys /\ [][Next]_vars

SpecFair ==
  /\ InitFair /\ [][Next]_vars
  /\ WF_vars(ListenForNewTabOpen)
  /\ \A s \in Slots : WF_vars(Route(s)) /\ WF_vars(OpDone(s))
  /\ WF_vars(DrainKeysDone)
  /\ \A k \in Keys : WF_vars(DrainGetDone(k))

\* ------------------------------------------------------------ properties

\* the step in which the reaction of the call in slot s runs
RouteStep(s) == ops[s].pc = "await" /\ ops'[s].pc # "await"

\* a request of a call of the application that this step hands to IndexedDB
Started(r) ==
  /\ \E i \in 1..Len(idbQ') : idbQ'[i] = r
  /\ \A j \in 1..Len(idbQ) : idbQ[j] # r

StartedRequests == {r \in {idbQ'[i] : i \in 1..Len(idbQ')} : Started(r)}

\* the controller is disabled: by initStore, by this.disable()
IsDisabled == initResult = "false" \/ DisableCalled

\* this tab wrote latestTabKey, and another tab wrote it after that
Announced ==
  /\ cfg.tabOpt /\ initResult = "true" /\ ~ctorThen
  /\ \A i \in 1..Len(onDisabledLog) :
       onDisabledLog[i].reason # "Unable to write __latest_tab to localStorage"
Older == Announced /\ lsTab = "foreign"

\* C1: a get with default options that follows a resolved set(K,V) with default
\* options, with no set, del or clear of K in between, resolves V.
C1_RoundTrip ==
  \A s \in Slots :
    (ops[s].pc = "done" /\ ops[s].kind = "get" /\ ops[s].res = "ok"
       /\ ops[s].exp \in Values)
    => ops[s].rval = ops[s].exp

\* C2: a get that follows a resolved del(K), itself made after a resolved
\* set(K,V), with no set of K in between, resolves undefined.
C2_DelThenGet ==
  \A s \in Slots :
    (ops[s].pc = "done" /\ ops[s].kind = "get" /\ ops[s].res = "ok"
       /\ ops[s].exp = Undefined)
    => ops[s].rval = Undefined

\* C3: when the stored version differs, the readiness promise resolves true only
\* with the controller's own object store emptied.
C3_ClearsOwnStore ==
  [][(initPc = "clearing" /\ initResult' = "true") => idb'[cfg.store] = EmptyStore]_vars

\* C4: when the copy that a tab using persistence started on an announcement
\* ends without error, every key that was persisted when the announcement was
\* handled (and that neither this tab nor another wrote since, and that the
\* memory object did not shadow) is in the memory object with its persisted
\* value, and persistence is off.
C4_DemotionKeepsData ==
  [][(/\ drain.pc \in {"keys", "gets"} /\ ~drain.settled /\ drain'.settled
      /\ onDisabledLog'[Len(onDisabledLog')].error = "none")
     => \A k \in scope.keys :
          (idb[cfg.store][k] # Absent /\ k \notin hist.dirty
             /\ hist.snapFs[k] = Absent)
          => (fallbackStore'[k] = idb[cfg.store][k] /\ indexedDBReady' = "false")]_vars

\* C5: a tab that handled the announcement of a newer tab starts no write
\* (set, del, clear) on the persistent store.
C5_SingleWriter ==
  [][(\E r \in StartedRequests : IsWrite(r))
     => ~(Older /\ drain.pc \in {"keys", "gets", "done"})]_vars

\* C6: a set with default options made after disable() resolves
\* {store: 'memory'} as soon as its reaction runs, and the memory object holds
\* the value.
C6_SetAfterDisable ==
  [][\A s \in Slots :
       (RouteStep(s) /\ ops[s].kind = "set" /\ ops[s].uf /\ ops[s].ad)
       => (/\ ops'[s].pc = "done" /\ ops'[s].res = "ok" /\ ops'[s].rval = "memory"
           /\ fallbackStore'[ops[s].key] = ops[s].val
           /\ idbQ' = idbQ)]_vars

\* C6, the case: disable() was called by the application while initStore was
\* running, a set made after it resolved {store: 'memory'}
C6_Witness ==
  \E s \in Slots :
    /\ ops[s].pc = "done" /\ ops[s].kind = "set" /\ ops[s].uf
    /\ ops[s].ad /\ ops[s].di /\ ExplicitCalls > 0
    /\ ops[s].rval = "memory" /\ fallbackStore[ops[s].key] = ops[s].val
    /\ initResult = "true"

\* C7: once the controller is disabled, no request is handed to IndexedDB.
C7_NoAdapterAfterDisable ==
  [][StartedRequests # {} => ~IsDisabled]_vars

\* the value the reaction of a call was run with, as its branch shows
ObservedReady(o) ==
  IF o.via \in {"idb", "onerror"} THEN "true"
  ELSE IF o.via = "rejected" THEN "rejected"
  ELSE "false"

\* C8: two set calls made while initStore was running see the same readiness.
C8_SameReadiness ==
  \A s1, s2 \in Slots :
    (/\ ops[s1].kind = "set" /\ ops[s2].kind = "set"
     /\ ops[s1].di /\ ops[s2].di
     /\ ops[s1].pc \in {"adapter", "done"} /\ ops[s2].pc \in {"adapter", "done"})
    => ObservedReady(ops[s1]) = ObservedReady(ops[s2])

\* C9 as stated: with either value of useFallback, a get of a key the memory
\* object holds resolves the memory value without a request to IndexedDB.
C9_ShadowsAnyOption ==
  [][\A s \in Slots :
       (RouteStep(s) /\ ops[s].kind = "get" /\ ReadyValue(ops[s].p) # "rejected"
          /\ fallbackStore[ops[s].key] # Absent)
       => (/\ ops'[s].pc = "done" /\ ops'[s].res = "ok"
           /\ ops'[s].rval = fallbackStore[ops[s].key]
           /\ idbQ' = idbQ)]_vars

\* C9: with useFallback true (the default), a get of a key the memory object
\* holds resolves the memory value without a request to IndexedDB, whether or
\* not persistence is in use.
C9_ShadowsWithFallback ==
  [][\A s \in Slots :
       (RouteStep(s) /\ ops[s].kind = "get" /\ ReadyValue(ops[s].p) # "rejected"
          /\ ops[s].uf /\ fallbackStore[ops[s].key] # Absent)
       => (/\ ops'[s].pc = "done" /\ ops'[s].res = "ok"
           /\ ops'[s].rval = fallbackStore[ops[s].key]
           /\ idbQ' = idbQ)]_vars

\* C9, the case: persistence is in use, the key is persisted with another
\* value, and a get was answered from the memory object
C9_Witness ==
  \E s \in Slots :
    /\ ops[s].pc = "done" /\ ops[s].kind = "get" /\ ops[s].via = "overlay"
    /\ indexedDBReady = "init" /\ initResult = "true"
    /\ idb[cfg.store][ops[s].key] \in Values
    /\ ops[s].rval \in Values
    /\ ops[s].rval # idb[cfg.store][ops[s].key]
    /\ fallbackStore[ops[s].key] = ops[s].rval

\* C10: when a set resolves with the persistent tag (and the application never
\* called disable()), the memory object has no entry for its key.
C10_PersistedLeavesNoEntry ==
  [][\A s \in Slots :
       (ops[s].pc = "adapter" /\ ops[s].kind = "set" /\ ExplicitCalls = 0
          /\ ops'[s].pc = "done" /\ ops'[s].rval = "IndexedDB")
       => fallbackStore'[ops[s].key] = Absent]_vars

\* the calls of onDisabled made by initStore
InitReports == {i \in 1..Len(onDisabledLog) : ~onDisabledLog[i].wasInitialized}

\* C11: the readiness promise never rejects; it resolves false with exactly one
\* onDisabled call of initStore, or true with none.
C11_InitSettles ==
  /\ initResult # "rejected"
  /\ initResult = "false" => Cardinality(InitReports) = 1
  /\ initResult = "true" => InitReports = {}

\* C12: a get that went to IndexedDB resolves what the object store holds or
\* rejects with the error of the read; in both cases the memory object and the
\* readiness are left as they were.
C12_ReadFailureSurfaces ==
  [][\A s \in Slots :
       (ops[s].pc = "adapter" /\ ops[s].kind = "get" /\ ops'[s].pc = "done")
       => (/\ \/ /\ ops'[s].res = "ok"
                 /\ ops'[s].rval = IdbGetResult(cfg.store, ops[s].key)
              \/ /\ ops'[s].res = "err"
                 /\ ops'[s].rval = "idb_error"
           /\ fallbackStore' = fallbackStore
           /\ indexedDBReady' = indexedDBReady
           /\ initResult' = initResult)]_vars

\* C12, the case: persistence is in use, the key is persisted and has no memory
\* entry, and the get was rejected with the error of the read
C12_Witness ==
  \E s \in Slots :
    /\ ops[s].pc = "done" /\ ops[s].kind = "get" /\ ops[s].via = "idb"
    /\ ops[s].res = "err" /\ ops[s].rval = "idb_error"
    /\ indexedDBReady = "init" /\ initResult = "true"
    /\ idb[cfg.store][ops[s].key] \in Values
    /\ fallbackStore[ops[s].key] = Absent

\* C13: the handoff starts only in a tab that is not the latest announcer:
\* when the handler unsubscribes, latestTabKey holds the timestamp of another tab.
C13_NewestNotDemoted ==
  [][(subscribed /\ ~subscribed') => lsTab = "foreign"]_vars

\* the calls disable('new_tab_opened', ...)
NewTabReports ==
  {i \in 1..Len(onDisabledLog) : onDisabledLog[i].reason = "new_tab_opened"}

\* C14: an event for another key changes nothing; the copy starts at most once,
\* in the step that removes the listener, and disable('new_tab_opened') is
\* called at most once, however many announcements arrive.
C14_HandoffOnce ==
  [][/\ (events # <<>> /\ events' = Tail(events) /\ Head(events) # LatestTabKey)
          => UNCHANGED <<scope, cfg, lsVersion, lsTab, idb, initPc, initResult,
                         ctorThen, indexedDBReady, disabledReason, onDisabledLog,
                         fallbackStore, subscribed, ops, idbQ, drain, hist>>
     /\ (drain.pc # "idle") => (drain'.pc # "idle" /\ (drain'.pc = "keys" => drain.pc = "keys"))
     /\ (\E r \in StartedRequests : r.owner = "drainKeys") => drain.pc = "idle"
     /\ (drain.pc = "idle" /\ drain'.pc # "idle") => (subscribed /\ ~subscribed')
     /\ Cardinality(NewTabReports') <= 1]_vars

\* C14, the case: the listener is removed, the copy is in flight and a further
\* announcement is waiting to be delivered
C14_Witness ==
  /\ ~subscribed /\ drain.pc = "gets" /\ NewTabReports = {}
  /\ events # <<>> /\ Head(events) = LatestTabKey

\* disable('new_tab_opened', error) was called, with the error of the copy
\* when the copy failed
DemotedByNewTab ==
  /\ indexedDBReady = "false"
  /\ \E i \in NewTabReports :
       /\ onDisabledLog[i].wasInitialized
       /\ (onDisabledLog[i].error = "idb_error") <=> hist.drainErr

\* C15: once an announcement was handled, the controller is eventually
\* disabled with reason 'new_tab_opened', whether the copy succeeds or fails.
C15_DemotionUnconditional == (drain.pc # "idle") ~> DemotedByNewTab

\* C15, the case: a request of the copy failed and the controller was disabled
\* with that error
C15_Witness ==
  /\ hist.drainErr /\ drain.settled /\ indexedDBReady = "false"
  /\ \E i \in NewTabReports : onDisabledLog[i].error = "idb_error"

\* the call of disable() made by listenForNewTabOpen when its write failed
ListenFailures ==
  {i \in 1..Len(onDisabledLog) :
     onDisabledLog[i].reason = "Unable to write __latest_tab to localStorage"}

\* C16: the timestamp is written under latestTabKey, and the listener added
\* right after it, only by a controller with disableOnNewTabOpen whose
\* initialization resolved true; a failed write of the timestamp disables the
\* controller through disable() and no listener is ever added; a controller
\* without the option, or whose initialization resolved false, does neither.
C16_CoordinationStart ==
  [][/\ (lsTab' = "self" /\ lsTab # "self") <=> (subscribed' /\ ~subscribed)
     /\ (lsTab' = "self" /\ lsTab # "self")
          => (cfg.tabOpt /\ initResult = "true" /\ ListenFailures' = {})
     /\ (ListenFailures' # ListenFailures)
          => /\ Len(onDisabledLog') = Len(onDisabledLog) + 1
             /\ onDisabledLog'[Len(onDisabledLog')].wasInitialized
             /\ indexedDBReady' = "false"
             /\ cfg.tabOpt /\ initResult = "true"
             /\ lsTab' = lsTab /\ ~subscribed'
     /\ (ListenFailures # {}) => (~subscribed' /\ lsTab' # "self")
     /\ (~cfg.tabOpt \/ initResult' # "true")
          => (~subscribed' /\ lsTab' # "self" /\ ListenFailures' = {})]_vars

\* C16, the case: the write of the timestamp failed for a controller that
\* was ready, and another tab has announced itself since
C16_Witness ==
  /\ cfg.tabOpt /\ initResult = "true" /\ ListenFailures # {}
  /\ ~subscribed /\ lsTab = "foreign" /\ indexedDBReady = "false"

\* C17: the reaction of del(key): an overlay entry for key is removed and
\* nothing else is done (no IndexedDB delete, the store keeps its content);
\* without an entry, del goes to IndexedDB when it can be used, and otherwise
\* resolves and changes nothing. No other key's overlay entry changes.
C17_DelFrame ==
  [][\A s \in Slots :
       (RouteStep(s) /\ ops[s].kind = "del") =>
         LET k == ops[s].key
             v == ReadyValue(ops[s].p)
             has == fallbackStore[k] # Absent
         IN /\ \A j \in Keys \ {k} : fallbackStore'[j] = fallbackStore[j]
            /\ idb' = idb
            /\ (v = "rejected") => UNCHANGED <<fallbackStore, idbQ>>
            /\ (v # "rejected" /\ has)
                 => /\ fallbackStore'[k] = Absent
                    /\ idbQ' = idbQ
                    /\ ops'[s].pc = "done" /\ ops'[s].res = "ok"
            /\ (v = "true" /\ ~has)
                 => /\ fallbackStore' = fallbackStore
                    /\ idbQ' = Append(idbQ, Request("op", s, "del", k, Undefined,
                                                    cfg.store))
                    /\ ops'[s].pc = "adapter"
            /\ (v = "false" /\ ~has)
                 => /\ UNCHANGED <<fallbackStore, idbQ>>
                    /\ ops'[s].pc = "done" /\ ops'[s].res = "ok"]_vars

\* C17, the case: del removed the overlay entry of a key that IndexedDB still
\* holds, while IndexedDB could be used, and the other key kept its entry
C17_Witness ==
  \E s \in Slots :
    /\ ops[s].pc = "done" /\ ops[s].kind = "del" /\ ops[s].via = "overlay"
    /\ ReadyValue(ops[s].p) = "true"
    /\ idbQ = <<>>
    /\ fallbackStore[ops[s].key] = Absent
    /\ idb[cfg.store][ops[s].key] \in Values
    /\ \E j \in Keys \ {ops[s].key} : fallbackStore[j] # Absent

\* the calls of this.disable() so far
DisableReports ==
  {i \in 1..Len(onDisabledLog) : onDisabledLog[i].wasInitialized}

ReadableWhenDisabled(fs, k) == IF fs[k] # Absent THEN fs[k] ELSE Undefined

\* C19: when the demotion completes, every key whose last set resolved before
\* it, with no set, del or clear of that key since, reads to the value of
\* that set on the demoted controller.
C19_NoLostWrite ==
  [][(/\ drain.pc \in {"keys", "gets"} /\ ~drain.settled /\ drain'.settled
      /\ ExplicitCalls = 0
      /\ onDisabledLog'[Len(onDisabledLog')].error = "none")
     => \A s \in Slots :
          (/\ ops[s].pc = "done" /\ ops[s].kind = "set" /\ ops[s].res = "ok"
           /\ ops[s].exp = "fresh")
          => ReadableWhenDisabled(fallbackStore', ops[s].key) = ops[s].val]_vars

\* C20: a controller on which disable() was called while initStore was
\* pending never writes the timestamp under latestTabKey and never adds the
\* listener (disable() is called explicitly only before the constructor's
\* reaction is queued or after it ran).
C20_StaysOut ==
  [][((lsTab' = "self" /\ lsTab # "self") \/ (subscribed' /\ ~subscribed))
       => ExplicitCalls = 0]_vars

\* C21: a set(key, value, {useFallback: false}) that rejects when its reaction
\* runs (persistence is disabled) leaves the overlay and the object stores as
\* they were before the call.
C21_RejectedSetKeepsState ==
  [][\A s \in Slots :
       (/\ RouteStep(s) /\ ops[s].kind = "set" /\ ~ops[s].uf
        /\ ops'[s].pc = "done" /\ ops'[s].res = "err")
       => (fallbackStore' = fallbackStore /\ idb' = idb)]_vars

\* C22: when a clear() that went to IndexedDB resolves, on a controller whose
\* disable() was never called by the application, the overlay is empty and
\* the controller's object store holds no key.
C22_ClearEmptiesView ==
  [][\A s \in Slots :
       (/\ ops[s].pc = "adapter" /\ ops[s].kind = "clear"
        /\ ExplicitCalls = 0
        /\ ops'[s].pc = "done" /\ ops'[s].res = "ok")
       => (/\ MemoryKeys(fallbackStore') = {}
           /\ StoreKeys(idb'[cfg.store]) = {})]_vars

=============================================================================
